---- MODULE Spec2Model ----
(***************************************************************************)
(* Model of src/Dashboard.py: one Streamlit script run (and its reruns).   *)
(* The script loads two tables through load_data (cached), renames and     *)
(* cleans them, applies the country and year filters chosen in the         *)
(* sidebar, joins the filtered tables on (country, year), derives          *)
(* gdp_per_capita and shows the rows of the latest year.                   *)
(*                                                                         *)
(* A DataFrame is a record [dtypes, rows]: dtypes maps each column name    *)
(* to "int64", "float64" or "object", rows is the sequence of rows, each a *)
(* function from column name to cell. A cell is a record [k, n, d, s]: a number     *)
(* n/d (k = "num"), a str s (k = "str") or None/NaN (k = "null").          *)
(***************************************************************************)
EXTENDS Integers, Sequences, FiniteSets, TLC

\* ------------------------------------------------------------------ bounds

\* Largest number of rows a database table holds in the model.
MaxRows == 2

\* ------------------------------------------------------------------- cells

Num(n) == [k |-> "num", n |-> n, d |-> 1, s |-> ""]
Frac(n, d) == [k |-> "num", n |-> n, d |-> d, s |-> ""]
Str(s) == [k |-> "str", n |-> 0, d |-> 1, s |-> s]
NaN == [k |-> "null", n |-> 0, d |-> 1, s |-> ""]

IsNull(v) == v.k = "null"

RECURSIVE Gcd(_, _)
Gcd(a, b) == IF b = 0 THEN a ELSE Gcd(b, a % b)

\* The mutant of Divide: the ratio taken the wrong way round.
DivideSwapped(a, b) ==
    IF a.n = 0 THEN Frac(0, 1)
    ELSE LET g == Gcd(b.n * a.d, a.n * b.d)
         IN  Frac((b.n * a.d) \div g, (a.n * b.d) \div g)

\* gdp_usd / population on two numeric cells with b # 0 (true division,
\* kept exact as a fraction in lowest terms).
Divide(a, b) ==
    LET g == Gcd(a.n * b.d, b.n * a.d)
    IN  Frac((a.n * b.d) \div g, (b.n * a.d) \div g)

\* The text cells of the tables that read as a number, with the number.
NumericText == ("100" :> 100) @@ ("7" :> 7) @@ ("50" :> 50) @@ ("0" :> 0)

\* The mutant of ToNumeric: a failed conversion yields 0 instead of NaN.
ToNumericZero(v) ==
    CASE v.k = "num" -> v
      [] v.k = "str" -> IF v.s \in DOMAIN NumericText THEN Num(NumericText[v.s]) ELSE Num(0)
      [] OTHER -> NaN

\* pd.to_numeric(..., errors='coerce') on one cell.
ToNumeric(v) ==
    CASE v.k = "num" -> v
      [] v.k = "str" -> IF v.s \in DOMAIN NumericText THEN Num(NumericText[v.s]) ELSE NaN
      [] OTHER -> NaN

\* -------------------------------------------------------------- DataFrames

Columns(df) == DOMAIN df.dtypes

\* pd.DataFrame()
EmptyDataFrame == [dtypes |-> <<>>, rows |-> <<>>]

\* DataFrame.empty: an axis of length 0.
IsEmpty(df) == Columns(df) = {} \/ Len(df.rows) = 0

Range(seq) == {seq[i] : i \in DOMAIN seq}

\* The dtype pandas gives a column of cells: int64 when all are whole numbers,
\* float64 when some are NaN (None becomes NaN beside numbers) or fractions,
\* object when it holds text or nothing but None.
InferDtype(cells) ==
    IF (\A v \in cells : v.k \in {"num", "null"}) /\ (\E v \in cells : v.k = "num")
    THEN IF \A v \in cells : v.k = "num" /\ v.d = 1 THEN "int64" ELSE "float64"
    ELSE "object"

\* The DataFrame pd.read_sql builds from the rows of a table.
MakeDataFrame(cols, rows) ==
    [dtypes |-> [c \in cols |-> InferDtype({rows[i][c] : i \in DOMAIN rows})],
     rows |-> rows]

RenameOf(map, c) == IF c \in DOMAIN map THEN map[c] ELSE c

\* DataFrame.rename(columns=map): columns the map does not name keep their name.
Rename(df, map) ==
    LET old(c2) == CHOOSE c \in Columns(df) : RenameOf(map, c) = c2
        new == {RenameOf(map, c) : c \in Columns(df)}
    IN  [dtypes |-> [c2 \in new |-> df.dtypes[old(c2)]],
         rows |-> [i \in DOMAIN df.rows |-> [c2 \in new |-> df.rows[i][old(c2)]]]]

GdpRenames == ("pais" :> "country") @@ ("ano" :> "year") @@ ("unidade" :> "unit")
              @@ ("pib_dolar" :> "gdp_usd")

PopulationRenames == ("pais" :> "country") @@ ("ano" :> "year") @@ ("unidade" :> "unit")
                     @@ ("populacao" :> "population")

\* df[col] = pd.to_numeric(df[col], errors='coerce')
ToNumericColumn(df, col) ==
    LET cells == {ToNumeric(df.rows[i][col]) : i \in DOMAIN df.rows}
    IN  [dtypes |-> [df.dtypes EXCEPT ![col] =
                        IF \A v \in cells : v.k = "num" /\ v.d = 1
                        THEN "int64" ELSE "float64"],
         rows |-> [i \in DOMAIN df.rows |-> [df.rows[i] EXCEPT ![col] = ToNumeric(@)]]]

\* DataFrame.dropna(subset=...): the rows with no missing cell in the subset.
DropNa(df, subset) ==
    LET keep(r) == \A i \in DOMAIN subset : ~IsNull(r[subset[i]])
    IN  [df EXCEPT !.rows = SelectSeq(df.rows, keep)]

\* ------------------------------------------------------- database contents

NoCountry == "_NO_COUNTRY_"

GdpRow(c, y, v) ==
    ("pais" :> c) @@ ("ano" :> y) @@ ("unidade" :> Str("USD")) @@ ("pib_dolar" :> v)

PopulationRow(c, y, v) ==
    ("pais" :> c) @@ ("ano" :> y) @@ ("unidade" :> Str("pessoas")) @@ ("populacao" :> v)

\* Rows of brics_pib with numeric ano and pib_dolar columns.
GdpSample ==
    << GdpRow(Str("BR"), Num(2019), Num(100)),
       GdpRow(Str("BR"), Num(2020), Num(100)),
       GdpRow(Str("BR"), Num(2020), Num(7)),
       GdpRow(Str("IN"), Num(2019), Num(7)),
       GdpRow(Str("IN"), Num(2020), Num(7)),
       GdpRow(Str(NoCountry), Num(2020), Num(7)),
       GdpRow(NaN, Num(2020), Num(100)),
       GdpRow(Str("BR"), NaN, Num(100)),
       GdpRow(Str("IN"), Num(2021), NaN) >>

\* Rows of brics_pib whose pib_dolar column is text.
GdpTextSample ==
    << GdpRow(Str("BR"), Num(2020), Str("100")),
       GdpRow(Str("IN"), Num(2020), Str("abc")) >>

\* Rows of brics_pib whose ano column is text.
GdpTextYearSample ==
    << GdpRow(Str("BR"), Str("2020"), Num(100)),
       GdpRow(Str("IN"), Str("2021"), NaN) >>

\* Rows of brics_populacao with numeric ano and populacao columns.
PopulationSample ==
    << PopulationRow(Str("BR"), Num(2019), Num(0)),
       PopulationRow(Str("BR"), Num(2019), Num(50)),
       PopulationRow(Str("BR"), Num(2020), Num(50)),
       PopulationRow(Str("IN"), Num(2019), Num(0)),
       PopulationRow(Str("IN"), Num(2020), Num(3)),
       PopulationRow(Str(NoCountry), Num(2020), Num(50)),
       PopulationRow(Str("BR"), Num(1999), Num(50)),
       PopulationRow(NaN, Num(2020), Num(50)),
       PopulationRow(Str("BR"), NaN, Num(50)),
       PopulationRow(Str("IN"), Num(2019), NaN) >>

PopulationTextSample ==
    << PopulationRow(Str("BR"), Num(2020), Str("50")),
       PopulationRow(Str("IN"), Num(2020), Str("abc")) >>

PopulationTextYearSample ==
    << PopulationRow(Str("BR"), Str("2020"), Num(50)),
       PopulationRow(Str("IN"), Str("2021"), NaN) >>

RECURSIVE Pick(_, _)
Pick(seq, S) ==
    IF S = {} THEN <<>>
    ELSE LET m == CHOOSE i \in S : \A j \in S : i <= j
         IN  <<seq[m]>> \o Pick(seq, S \ {m})

\* The tables of at most MaxRows rows taken, in order, from a sample.
SubTables(seq) ==
    {Pick(seq, S) : S \in {T \in SUBSET DOMAIN seq : Cardinality(T) <= MaxRows}}

WithoutColumn(rows, col) ==
    [i \in DOMAIN rows |-> [c \in DOMAIN rows[i] \ {col} |-> rows[i][c]]]

GdpColumns == {"pais", "ano", "unidade", "pib_dolar"}
PopulationColumns == {"pais", "ano", "unidade", "populacao"}

\* What SELECT * FROM brics_pib can return: a table of the usual schema
\* (possibly with no row), one with a text column, or one with no ano column.
GdpTables ==
    {MakeDataFrame(GdpColumns, rows) :
        rows \in SubTables(GdpSample)
                 \cup (SubTables(GdpTextSample) \ {<<>>})
                 \cup (SubTables(GdpTextYearSample) \ {<<>>})}
    \cup {MakeDataFrame(GdpColumns \ {"ano"}, WithoutColumn(<<GdpSample[2]>>, "ano"))}

PopulationTables ==
    {MakeDataFrame(PopulationColumns, rows) :
        rows \in SubTables(PopulationSample)
                 \cup (SubTables(PopulationTextSample) \ {<<>>})
                 \cup (SubTables(PopulationTextYearSample) \ {<<>>})}
    \cup {MakeDataFrame(PopulationColumns \ {"ano"},
                        WithoutColumn(<<PopulationSample[3]>>, "ano"))}

TableNames == {"brics_pib", "brics_populacao"}

Tables(table_name) == IF table_name = "brics_pib" THEN GdpTables ELSE PopulationTables

\* ------------------------------------------------------------------- state

VARIABLES
    pc,                         \* the statement the script is at
    exception,                  \* the exception that ended the run, or "none"
    conn,                       \* per table: the connection load_data opened
    connect_attempts,           \* per table: calls of psycopg2.connect
    cache,                      \* st.cache_data: per table, load_data's cached return
    messages,                   \* the st.error / st.warning / st.info shown in this run
    locals,                     \* the names the run has bound so far
    df_gdp, df_population,
    selected_countries_option, all_countries, selected_countries,
    year_range,
    df_gdp_filtered, df_population_filtered,
    df_combined,
    latest_year, df_latest_data,
    latest_table                \* df_latest_data[existing_cols], before its cells are formatted

vars == <<pc, exception, conn, connect_attempts, cache, messages, locals,
          df_gdp, df_population,
          selected_countries_option, all_countries, selected_countries, year_range,
          df_gdp_filtered, df_population_filtered, df_combined,
          latest_year, df_latest_data, latest_table>>

db_vars == <<conn, connect_attempts, cache>>
load_vars == <<df_gdp, df_population>>
filter_vars == <<selected_countries_option, all_countries, selected_countries, year_range>>
output_vars == <<df_gdp_filtered, df_population_filtered, df_combined,
                 latest_year, df_latest_data, latest_table>>

NotCached == [cached |-> FALSE, df |-> EmptyDataFrame, messages |-> {}]

\* The values of the names of a run before the run binds them.
RunStart ==
    /\ pc = "load_gdp"
    /\ exception = "none"
    /\ messages = {}
    /\ locals = {}
    /\ df_gdp = EmptyDataFrame
    /\ df_population = EmptyDataFrame
    /\ selected_countries_option = "none"
    /\ all_countries = {}
    /\ selected_countries = {}
    /\ year_range = <<0, 0>>
    /\ df_gdp_filtered = EmptyDataFrame
    /\ df_population_filtered = EmptyDataFrame
    /\ df_combined = EmptyDataFrame
    /\ latest_year = 0
    /\ df_latest_data = EmptyDataFrame
    /\ latest_table = EmptyDataFrame

Init ==
    /\ RunStart
    /\ conn = [t \in TableNames |-> "none"]
    /\ connect_attempts = [t \in TableNames |-> 0]
    /\ cache = [t \in TableNames |-> NotCached]

\* --------------------------------------------------------------- load_data

LoadError(table_name) == "error: load " \o table_name

\* load_data(table_name) under @st.cache_data. A cached call returns the cached
\* DataFrame and replays the cached st.error. Otherwise psycopg2.connect is
\* called once; when it raises no connection exists; when pd.read_sql raises
\* the except branch returns without conn.close(); otherwise the connection
\* is closed and the table returned. The return value is cache'[table_name].df.
load_data(table_name) ==
    \/ /\ cache[table_name].cached
       /\ messages' = messages \cup cache[table_name].messages
       /\ UNCHANGED db_vars
    \/ /\ ~cache[table_name].cached
       /\ \E failure \in {"connect", "read_sql"} :
            /\ connect_attempts' = [connect_attempts EXCEPT ![table_name] = @ + 1]
            /\ conn' = [conn EXCEPT ![table_name] =
                            IF failure = "connect" THEN "none" ELSE "open"]
            /\ cache' = [cache EXCEPT ![table_name] =
                            [cached |-> TRUE, df |-> EmptyDataFrame,
                             messages |-> {LoadError(table_name)}]]
            /\ messages' = messages \cup {LoadError(table_name)}
    \/ /\ ~cache[table_name].cached
       /\ \E data \in Tables(table_name) :
            /\ connect_attempts' = [connect_attempts EXCEPT ![table_name] = @ + 1]
            /\ conn' = [conn EXCEPT ![table_name] = "closed"]
            /\ cache' = [cache EXCEPT ![table_name] =
                            [cached |-> TRUE, df |-> data, messages |-> {}]]
            /\ messages' = messages

\* df_gdp = load_data("brics_pib")
LoadGdp ==
    /\ pc = "load_gdp"
    /\ load_data("brics_pib")
    /\ df_gdp' = cache'["brics_pib"].df
    /\ locals' = locals \cup {"df_gdp"}
    /\ pc' = "load_population"
    /\ UNCHANGED <<exception, df_population, filter_vars, output_vars>>

\* df_population = load_data("brics_populacao")
LoadPopulation ==
    /\ pc = "load_population"
    /\ load_data("brics_populacao")
    /\ df_population' = cache'["brics_populacao"].df
    /\ locals' = locals \cup {"df_population"}
    /\ pc' = "check"
    /\ UNCHANGED <<exception, df_gdp, filter_vars, output_vars>>

\* ------------------------------------------------------- check and clean

\* The mutant of LoadIncomplete: both tables must be empty for the warning.
LoadIncompleteBoth == IsEmpty(df_gdp) /\ IsEmpty(df_population)

\* if df_gdp.empty or df_population.empty
LoadIncomplete == IsEmpty(df_gdp) \/ IsEmpty(df_population)

Raise(name) ==
    /\ pc' = "crashed"
    /\ exception' = name

\* The warning branch ends the run; the else branch holds the rest of the script.
CheckLoaded ==
    /\ pc = "check"
    /\ IF LoadIncomplete
       THEN /\ messages' = messages \cup {"warning: load"}
            /\ pc' = "done"
       ELSE /\ messages' = messages
            /\ pc' = "normalize"
    /\ UNCHANGED <<exception, db_vars, locals, load_vars, filter_vars, output_vars>>

GdpRequired == <<"gdp_usd", "country", "year">>
PopulationRequired == <<"population", "country", "year">>

\* The renames, the two to_numeric assignments and the two dropna calls, in the
\* order of the script; a column that is not there raises KeyError and leaves
\* the DataFrames as the statements before it made them.
Normalized(gdp, population) ==
    LET g1 == Rename(gdp, GdpRenames)
        p1 == Rename(population, PopulationRenames)
    IN  IF "gdp_usd" \notin Columns(g1)
        THEN [error |-> "KeyError", gdp |-> g1, population |-> p1]
        ELSE LET g2 == ToNumericColumn(g1, "gdp_usd")
        IN  IF "population" \notin Columns(p1)
            THEN [error |-> "KeyError", gdp |-> g2, population |-> p1]
            ELSE LET p2 == ToNumericColumn(p1, "population")
            IN  IF ~(Range(GdpRequired) \subseteq Columns(g2))
                THEN [error |-> "KeyError", gdp |-> g2, population |-> p2]
                ELSE LET g3 == DropNa(g2, GdpRequired)
                IN  IF ~(Range(PopulationRequired) \subseteq Columns(p2))
                    THEN [error |-> "KeyError", gdp |-> g3, population |-> p2]
                    ELSE [error |-> "none", gdp |-> g3,
                          population |-> DropNa(p2, PopulationRequired)]

Normalize ==
    /\ pc = "normalize"
    /\ LET res == Normalized(df_gdp, df_population)
       IN  /\ df_gdp' = res.gdp
           /\ df_population' = res.population
           /\ IF res.error = "none"
              THEN pc' = "select" /\ exception' = exception
              ELSE Raise(res.error)
    /\ UNCHANGED <<db_vars, messages, locals, filter_vars, output_vars>>

\* ----------------------------------------------------------------- sidebar

AllCountriesOption == "Todos os Paises"
SpecificCountriesOption == "Selecionar Paises Especificos"

\* if not selected_countries: selected_countries = ['_NO_COUNTRY_']
SelectedOrSentinel(chosen) == IF chosen = {} THEN {Str(NoCountry)} ELSE chosen

\* The radio, the multiselect (any subset of all_countries) and the sentinel.
SelectCountries ==
    /\ pc = "select"
    /\ LET countries == IF "country" \in Columns(df_gdp)
                        THEN {df_gdp.rows[i]["country"] : i \in DOMAIN df_gdp.rows}
                        ELSE {}
       IN  /\ all_countries' = countries
           /\ \E option \in {AllCountriesOption, SpecificCountriesOption} :
              \E chosen \in SUBSET countries :
                /\ option = AllCountriesOption => chosen = countries
                /\ selected_countries_option' = option
                /\ selected_countries' = SelectedOrSentinel(chosen)
                /\ messages' = messages
                     \cup (IF option = SpecificCountriesOption /\ countries = {}
                           THEN {"info: no country available"} ELSE {})
                     \cup (IF chosen = {} THEN {"warning: no country selected"} ELSE {})
    /\ locals' = locals \cup {"all_countries", "selected_countries"}
    /\ pc' = "year_range"
    /\ UNCHANGED <<exception, db_vars, load_vars, year_range, output_vars>>

\* pd.api.types.is_numeric_dtype(df[col])
IsNumericDtype(df, col) == df.dtypes[col] \in {"int64", "float64"}

DefaultMinYear == 2000
DefaultMaxYear == 2023

Min(S) == CHOOSE x \in S : \A y \in S : x <= y
Max(S) == CHOOSE x \in S : \A y \in S : y <= x

Years(df) == {df.rows[i]["year"].n : i \in DOMAIN df.rows}

\* The slider over [min_year, max_year] of df_gdp, or the default range with an
\* error message; int() of the minimum of an empty column raises ValueError.
YearRange ==
    /\ pc = "year_range"
    /\ IF "year" \in Columns(df_gdp) /\ IsNumericDtype(df_gdp, "year")
       THEN IF df_gdp.rows = <<>>
            THEN /\ Raise("ValueError")
                 /\ UNCHANGED <<year_range, messages, locals>>
            ELSE /\ \E lo \in Min(Years(df_gdp)) .. Max(Years(df_gdp)) :
                    \E hi \in lo .. Max(Years(df_gdp)) :
                        year_range' = <<lo, hi>>
                 /\ messages' = messages
                 /\ locals' = locals \cup {"year_range"}
                 /\ pc' = "filter"
                 /\ exception' = exception
       ELSE /\ year_range' = <<DefaultMinYear, DefaultMaxYear>>
            /\ messages' = messages \cup {"error: year"}
            /\ locals' = locals \cup {"year_range"}
            /\ pc' = "filter"
            /\ exception' = exception
    /\ UNCHANGED <<db_vars, load_vars, selected_countries_option, all_countries,
                   selected_countries, output_vars>>

\* ------------------------------------------------------------------ filter

\* cell >= y and cell <= y on a numeric cell
Ge(cell, y) == cell.n >= y * cell.d
Le(cell, y) == cell.n <= y * cell.d
Lt(cell, y) == cell.n < y * cell.d

\* The mutant of InRange: the upper end is excluded.
InRangeExclusive(cell, range) == Ge(cell, range[1]) /\ Lt(cell, range[2])

\* (df['year'] >= year_range[0]) & (df['year'] <= year_range[1])
InRange(cell, range) == Ge(cell, range[1]) /\ Le(cell, range[2])

\* Comparing a column that holds str with an int raises TypeError.
FilterRaises(df) ==
    /\ {"country", "year"} \subseteq Columns(df)
    /\ \E i \in DOMAIN df.rows : df.rows[i]["year"].k = "str"

\* df[df['country'].isin(countries) & (df['year'] >= lo) & (df['year'] <= hi)],
\* or pd.DataFrame() when a column is not there.
Filter(df, countries, range) ==
    IF {"country", "year"} \subseteq Columns(df)
    THEN LET keep(r) == /\ r["country"] \in countries
                        /\ r["year"].k = "num"
                        /\ InRange(r["year"], range)
         IN  [df EXCEPT !.rows = SelectSeq(df.rows, keep)]
    ELSE EmptyDataFrame

ApplyFilters ==
    /\ pc = "filter"
    /\ IF FilterRaises(df_gdp)
       THEN /\ Raise("TypeError")
            /\ UNCHANGED <<df_gdp_filtered, df_population_filtered, locals>>
       ELSE /\ df_gdp_filtered' = Filter(df_gdp, selected_countries, year_range)
            /\ IF FilterRaises(df_population)
               THEN /\ Raise("TypeError")
                    /\ locals' = locals \cup {"df_gdp_filtered"}
                    /\ UNCHANGED df_population_filtered
               ELSE /\ df_population_filtered' =
                          Filter(df_population, selected_countries, year_range)
                    /\ locals' = locals \cup {"df_gdp_filtered", "df_population_filtered"}
                    /\ pc' = "charts"
                    /\ exception' = exception
    /\ UNCHANGED <<db_vars, messages, load_vars, filter_vars, df_combined,
                   latest_year, df_latest_data, latest_table>>

\* The two tables and the two line charts: a chart is drawn when its data is
\* not empty and has its columns, and an st.info is shown otherwise.
RenderCharts ==
    /\ pc = "charts"
    /\ messages' = messages
         \cup (IF ~IsEmpty(df_gdp_filtered)
                  /\ {"country", "year", "gdp_usd"} \subseteq Columns(df_gdp_filtered)
               THEN {} ELSE {"info: no gdp data"})
         \cup (IF ~IsEmpty(df_population_filtered)
                  /\ {"country", "year", "population"} \subseteq Columns(df_population_filtered)
               THEN {} ELSE {"info: no population data"})
    /\ pc' = "combine"
    /\ UNCHANGED <<exception, db_vars, locals, load_vars, filter_vars, output_vars>>

\* ----------------------------------------------------------------- combine

JoinKeys == {"country", "year"}

\* The mutant of KeysMatch: the rows are matched on the country alone.
KeysMatchCountryOnly(l, r) == l["country"] = r["country"]

\* on=['country', 'year']
KeysMatch(l, r) == \A c \in JoinKeys : l[c] = r[c]

\* The name a column of one side gets: the suffix is added when the other
\* side has a column of that name which is not a key.
Suffixed(c, other, suffix) ==
    IF c \in Columns(other) \ JoinKeys THEN c \o suffix ELSE c

\* The row of the join made of a left row and a right row.
JoinedRow(left, right, l, r) ==
    LET lnames == {Suffixed(c, right, "_gdp") : c \in Columns(left) \ JoinKeys}
        lold(n) == CHOOSE c \in Columns(left) \ JoinKeys : Suffixed(c, right, "_gdp") = n
        rold(n) == CHOOSE c \in Columns(right) \ JoinKeys : Suffixed(c, left, "_pop") = n
        rnames == {Suffixed(c, left, "_pop") : c \in Columns(right) \ JoinKeys}
    IN  [n \in JoinKeys \cup lnames \cup rnames |->
            IF n \in JoinKeys THEN l[n]
            ELSE IF n \in lnames THEN l[lold(n)] ELSE r[rold(n)]]

RECURSIVE JoinRows(_, _, _)
\* The rows of the inner join from left row i on: the left rows in order,
\* each with its matching right rows in order.
JoinRows(left, right, i) ==
    IF i > Len(left.rows) THEN <<>>
    ELSE LET l == left.rows[i]
             match(r) == KeysMatch(l, r)
             found == SelectSeq(right.rows, match)
         IN  [j \in DOMAIN found |-> JoinedRow(left, right, l, found[j])]
             \o JoinRows(left, right, i + 1)

\* pd.merge(left, right, on=['country', 'year'], how='inner',
\*          suffixes=('_gdp', '_pop'))
Merge(left, right) ==
    LET lnames == {Suffixed(c, right, "_gdp") : c \in Columns(left) \ JoinKeys}
        lold(n) == CHOOSE c \in Columns(left) \ JoinKeys : Suffixed(c, right, "_gdp") = n
        rold(n) == CHOOSE c \in Columns(right) \ JoinKeys : Suffixed(c, left, "_pop") = n
        rnames == {Suffixed(c, left, "_pop") : c \in Columns(right) \ JoinKeys}
    IN  [dtypes |-> [n \in JoinKeys \cup lnames \cup rnames |->
                        IF n \in JoinKeys THEN left.dtypes[n]
                        ELSE IF n \in lnames THEN left.dtypes[lold(n)]
                        ELSE right.dtypes[rold(n)]],
         rows |-> JoinRows(left, right, 1)]

\* pandas refuses a join key that is object on one side and numeric on the
\* other. With rows on exactly one side the check is skipped, and a str column
\* with rows never gets here (the filter raised); what is left is two sides
\* without rows, an object year against a float64 year, where the releases of
\* pandas that infer "floating" for the empty float64 key raise ValueError.
MergeMayRaise(left, right) ==
    /\ JoinKeys \subseteq Columns(left)
    /\ JoinKeys \subseteq Columns(right)
    /\ left.rows = <<>>
    /\ right.rows = <<>>
    /\ {left.dtypes["year"], right.dtypes["year"]} = {"object", "float64"}

\* The mutant of PopulationNonZero: one nonzero population is enough.
PopulationSomeNonZero(df) == \E i \in DOMAIN df.rows : df.rows[i]["population"].n # 0

\* (df_combined['population'] != 0).all()
PopulationNonZero(df) == \A i \in DOMAIN df.rows : df.rows[i]["population"].n # 0

\* The condition under which gdp_per_capita is computed.
PerCapitaGuard(df) ==
    /\ "gdp_usd" \in Columns(df)
    /\ "population" \in Columns(df)
    /\ IsNumericDtype(df, "gdp_usd")
    /\ IsNumericDtype(df, "population")
    /\ PopulationNonZero(df)

\* df_combined['gdp_per_capita'] = df_combined['gdp_usd'] / df_combined['population']
WithPerCapita(df) ==
    [dtypes |-> [c \in Columns(df) \cup {"gdp_per_capita"} |->
                    IF c = "gdp_per_capita" THEN "float64" ELSE df.dtypes[c]],
     rows |-> [i \in DOMAIN df.rows |->
                  [c \in Columns(df) \cup {"gdp_per_capita"} |->
                      IF c = "gdp_per_capita"
                      THEN Divide(df.rows[i]["gdp_usd"], df.rows[i]["population"])
                      ELSE df.rows[i][c]]]]

\* df_combined as the script leaves it.
Combined(gdp_filtered, population_filtered) ==
    IF JoinKeys \subseteq Columns(gdp_filtered) /\ JoinKeys \subseteq Columns(population_filtered)
    THEN LET merged == Merge(gdp_filtered, population_filtered)
         IN  IF ~IsEmpty(merged) /\ PerCapitaGuard(merged)
             THEN WithPerCapita(merged)
             ELSE merged
    ELSE EmptyDataFrame

CombineMessages(gdp_filtered, population_filtered) ==
    IF JoinKeys \subseteq Columns(gdp_filtered) /\ JoinKeys \subseteq Columns(population_filtered)
    THEN LET merged == Merge(gdp_filtered, population_filtered)
         IN  IF ~IsEmpty(merged)
             THEN IF PerCapitaGuard(merged) THEN {} ELSE {"info: no per capita"}
             ELSE {"info: no combined data"}
    ELSE {"info: no key columns"}

Combine ==
    /\ pc = "combine"
    /\ \/ /\ df_combined' = Combined(df_gdp_filtered, df_population_filtered)
          /\ messages' = messages
                \cup CombineMessages(df_gdp_filtered, df_population_filtered)
          /\ locals' = locals \cup {"df_combined"}
          /\ pc' = "latest"
          /\ exception' = exception
       \/ /\ MergeMayRaise(df_gdp_filtered, df_population_filtered)
          /\ Raise("ValueError")
          /\ df_combined' = EmptyDataFrame
          /\ messages' = messages
          /\ locals' = locals \cup {"df_combined"}
    /\ UNCHANGED <<db_vars, load_vars, filter_vars, df_gdp_filtered,
                   df_population_filtered, latest_year, df_latest_data, latest_table>>

\* ------------------------------------------------------------- latest year

ColsToDisplay == {"country", "year", "gdp_usd", "population", "gdp_per_capita"}

\* The mutant of LatestYear: the earliest year is taken.
EarliestYear(df) == Min(Years(df))

\* df_combined['year'].max()
LatestYear(df) == Max(Years(df))

\* df[df['year'] == year]
RowsOfYear(df, year) ==
    LET keep(r) == r["year"].n = year * r["year"].d
    IN  [df EXCEPT !.rows = SelectSeq(df.rows, keep)]

\* df[cols]
Project(df, cols) ==
    [dtypes |-> [c \in cols |-> df.dtypes[c]],
     rows |-> [i \in DOMAIN df.rows |-> [c \in cols |-> df.rows[i][c]]]]

LatestSlice ==
    /\ pc = "latest"
    /\ IF "df_combined" \in locals /\ ~IsEmpty(df_combined)
       THEN LET year == LatestYear(df_combined)
                latest == RowsOfYear(df_combined, year)
            IN  /\ latest_year' = year
                /\ df_latest_data' = latest
                /\ IF ~IsEmpty(latest)
                   THEN /\ latest_table' = Project(latest, ColsToDisplay \cap Columns(latest))
                        /\ messages' = messages
                        /\ locals' = locals \cup {"latest_year", "df_latest_data",
                                                  "formatted_latest_data"}
                   ELSE /\ latest_table' = latest_table
                        /\ messages' = messages \cup {"info: no latest rows"}
                        /\ locals' = locals \cup {"latest_year", "df_latest_data"}
       ELSE /\ messages' = messages \cup {"info: no summary"}
            /\ UNCHANGED <<latest_year, df_latest_data, latest_table, locals>>
    /\ pc' = "done"
    /\ UNCHANGED <<exception, db_vars, load_vars, filter_vars, df_gdp_filtered,
                   df_population_filtered, df_combined>>

\* ------------------------------------------------------------------- rerun

\* A widget interaction reruns the script from the top, also after a run
\* that ended in an exception; only what st.cache_data keeps survives.
Rerun ==
    /\ pc \in {"done", "crashed"}
    /\ pc' = "load_gdp"
    /\ exception' = "none"
    /\ messages' = {}
    /\ locals' = {}
    /\ df_gdp' = EmptyDataFrame
    /\ df_population' = EmptyDataFrame
    /\ selected_countries_option' = "none"
    /\ all_countries' = {}
    /\ selected_countries' = {}
    /\ year_range' = <<0, 0>>
    /\ df_gdp_filtered' = EmptyDataFrame
    /\ df_population_filtered' = EmptyDataFrame
    /\ df_combined' = EmptyDataFrame
    /\ latest_year' = 0
    /\ df_latest_data' = EmptyDataFrame
    /\ latest_table' = EmptyDataFrame
    /\ UNCHANGED db_vars

Next ==
    \/ LoadGdp
    \/ LoadPopulation
    \/ CheckLoaded
    \/ Normalize
    \/ SelectCountries
    \/ YearRange
    \/ ApplyFilters
    \/ RenderCharts
    \/ Combine
    \/ LatestSlice
    \/ Rerun

Spec == Init /\ [][Next]_vars

\* ------------------------------------------------------------- properties

\* The stages of a run: both filters applied, the datasets combined, the
\* datasets cleaned (a run that ends at the load warning passes none of them).
Filtered == "df_population_filtered" \in locals
CombinedDone == "df_combined" \in locals /\ pc # "crashed"
Cleaned ==
    \/ pc \in {"select", "year_range", "filter", "charts", "combine", "latest"}
    \/ pc = "done" /\ "df_combined" \in locals
    \/ pc = "crashed" /\ exception \in {"TypeError", "ValueError"}

Count(seq, x) == Cardinality({i \in DOMAIN seq : seq[i] = x})

\* A cleaned row passes the filters of the sidebar.
Selected(r) ==
    /\ r["country"] \in selected_countries
    /\ year_range[1] <= r["year"].n
    /\ r["year"].n <= year_range[2]

ExactlySelected(df, filtered) ==
    /\ Columns(filtered) = Columns(df)
    /\ Len(filtered.rows) = Cardinality({i \in DOMAIN df.rows : Selected(df.rows[i])})
    /\ \A r \in Range(df.rows) \cup Range(filtered.rows) :
          Count(filtered.rows, r) = IF Selected(r) THEN Count(df.rows, r) ELSE 0

\* C1: once the filters are applied, the filtered GDP and population datasets
\* hold exactly the rows of the cleaned datasets whose country is in
\* selected_countries and whose year lies in year_range, both ends included.
C1_FilterExact ==
    Filtered => /\ ExactlySelected(df_gdp, df_gdp_filtered)
                /\ ExactlySelected(df_population, df_population_filtered)

\* A run that kept a row of the last year of the range and dropped one row
\* for its year and another for its country.
C1_Witness ==
    /\ pc = "done"
    /\ \E i \in DOMAIN df_gdp_filtered.rows :
          df_gdp_filtered.rows[i]["year"].n = year_range[2]
    /\ \E i \in DOMAIN df_gdp.rows :
          /\ df_gdp.rows[i]["country"] \in selected_countries
          /\ df_gdp.rows[i]["year"].n < year_range[1]
    /\ \E i \in DOMAIN df_population.rows :
          /\ df_population.rows[i]["country"] \notin selected_countries
          /\ year_range[1] <= df_population.rows[i]["year"].n
          /\ df_population.rows[i]["year"].n <= year_range[2]

\* C2: when no country is selected, the sentinel matches no country of any
\* dataset, so both filtered datasets are empty.
C2_EmptySelectionFiltersEverything ==
    (Filtered /\ "warning: no country selected" \in messages)
        => /\ df_gdp_filtered.rows = <<>>
           /\ df_population_filtered.rows = <<>>

Keys(df) == {<<df.rows[i]["country"], df.rows[i]["year"]>> : i \in DOMAIN df.rows}

CountKey(df, key) ==
    Cardinality({i \in DOMAIN df.rows : <<df.rows[i]["country"], df.rows[i]["year"]>> = key})

\* C3: the combined dataset holds exactly the (country, year) pairs present in
\* both filtered datasets, each as often as its rows pair up, every combined
\* row carrying the gdp_usd of a GDP row and the population of a population
\* row of its pair; an empty GDP side gives an empty combined dataset.
C3_CombineIsInnerJoin ==
    CombinedDone =>
        /\ Keys(df_combined) = Keys(df_gdp_filtered) \cap Keys(df_population_filtered)
        /\ \A key \in Keys(df_gdp_filtered) \cup Keys(df_population_filtered) :
              CountKey(df_combined, key)
                  = CountKey(df_gdp_filtered, key) * CountKey(df_population_filtered, key)
        /\ \A i \in DOMAIN df_combined.rows :
              LET c == df_combined.rows[i]
              IN  /\ \E j \in DOMAIN df_gdp_filtered.rows :
                        LET g == df_gdp_filtered.rows[j]
                        IN  /\ g["country"] = c["country"]
                            /\ g["year"] = c["year"]
                            /\ g["gdp_usd"] = c["gdp_usd"]
                  /\ \E j \in DOMAIN df_population_filtered.rows :
                        LET q == df_population_filtered.rows[j]
                        IN  /\ q["country"] = c["country"]
                            /\ q["year"] = c["year"]
                            /\ q["population"] = c["population"]
        /\ (df_gdp_filtered.rows = <<>> => df_combined.rows = <<>>)

\* A join that kept a pair and dropped an unmatched row of each side.
C3_Witness ==
    /\ pc = "done"
    /\ df_combined.rows # <<>>
    /\ Keys(df_gdp_filtered) \ Keys(df_population_filtered) # {}
    /\ Keys(df_population_filtered) \ Keys(df_gdp_filtered) # {}

HasZeroPopulation(df) == \E i \in DOMAIN df.rows : df.rows[i]["population"].n = 0

\* C4 as stated: a zero population anywhere in the filtered population
\* dataset keeps gdp_per_capita out of the combined dataset.
C4_ZeroInFilteredPopulation ==
    (CombinedDone /\ HasZeroPopulation(df_population_filtered))
        => "gdp_per_capita" \notin Columns(df_combined)

\* C4 as amended: a zero population in a row of the joined result keeps
\* gdp_per_capita out of the combined dataset entirely, also for the rows
\* whose population is not zero.
C4_ZeroInJoinedResult ==
    (CombinedDone /\ HasZeroPopulation(df_combined))
        => "gdp_per_capita" \notin Columns(df_combined)

\* A combined dataset with a zero population row and a nonzero one.
C4_Witness ==
    /\ pc = "done"
    /\ HasZeroPopulation(df_combined)
    /\ \E i \in DOMAIN df_combined.rows : df_combined.rows[i]["population"].n # 0
    /\ "gdp_per_capita" \notin Columns(df_combined)

\* C5: a non-empty joined result without a zero population carries, in every
\* row, gdp_per_capita = gdp_usd / population (100 / 50 gives 2); an empty
\* joined result gets no gdp_per_capita column.
C5_PerCapita ==
    CombinedDone =>
        /\ (df_combined.rows # <<>> /\ ~HasZeroPopulation(df_combined)) =>
              /\ "gdp_per_capita" \in Columns(df_combined)
              /\ \A i \in DOMAIN df_combined.rows :
                    LET r == df_combined.rows[i]
                    IN  /\ r["gdp_per_capita"].k = "num"
                        /\ r["gdp_per_capita"].d > 0
                        /\ r["gdp_per_capita"].n * r["population"].n
                               = r["gdp_usd"].n * r["gdp_per_capita"].d
                        /\ (r["gdp_usd"] = Num(100) /\ r["population"] = Num(50))
                               => r["gdp_per_capita"] = Num(2)
        /\ (df_combined.rows = <<>> => "gdp_per_capita" \notin Columns(df_combined))

\* The scenario of the specification: BR, 2020, 100 and 50, per capita 2.
C5_Witness ==
    /\ pc = "done"
    /\ Len(df_combined.rows) = 1
    /\ df_combined.rows[1]["country"] = Str("BR")
    /\ df_combined.rows[1]["year"] = Num(2020)
    /\ df_combined.rows[1]["gdp_usd"] = Num(100)
    /\ df_combined.rows[1]["population"] = Num(50)
    /\ df_combined.rows[1]["gdp_per_capita"] = Num(2)

\* C6: at the end of a run with a non-empty combined dataset, latest_year is
\* the largest year of the combined dataset and the summary table holds exactly
\* the combined rows of that year, cut to those of country, year, gdp_usd,
\* population and gdp_per_capita that exist; with an empty combined dataset
\* there is no summary table.
C6_LatestSlice ==
    pc = "done" /\ "df_combined" \in locals =>
        IF df_combined.rows # <<>>
        THEN LET cols == ColsToDisplay \cap Columns(df_combined)
                 cut(r) == [c \in cols |-> r[c]]
                 latest == {i \in DOMAIN df_combined.rows :
                               df_combined.rows[i]["year"].n = latest_year}
             IN  /\ \A i \in DOMAIN df_combined.rows :
                       df_combined.rows[i]["year"].n <= latest_year
                 /\ latest # {}
                 /\ Columns(latest_table) = cols
                 /\ Len(latest_table.rows) = Cardinality(latest)
                 /\ \A i \in latest :
                       Count(latest_table.rows, cut(df_combined.rows[i]))
                           = Cardinality({j \in latest :
                                 cut(df_combined.rows[j]) = cut(df_combined.rows[i])})
                 /\ \A i \in DOMAIN latest_table.rows :
                       \E j \in latest : latest_table.rows[i] = cut(df_combined.rows[j])
        ELSE /\ latest_table = EmptyDataFrame
             /\ "formatted_latest_data" \notin locals

\* A combined dataset of two years, of which the summary shows the later.
C6_Witness ==
    /\ pc = "done"
    /\ Cardinality(Years(df_combined)) > 1
    /\ Len(latest_table.rows) < Len(df_combined.rows)
    /\ latest_table.rows # <<>>

\* A raw cell that to_numeric reads as a number.
IsNumeric(v) == v.k = "num" \/ (v.k = "str" /\ v.s \in DOMAIN NumericText)
NumberOf(v) == IF v.k = "num" THEN v ELSE Num(NumericText[v.s])

CleanGdpRow(r) ==
    [country |-> r["pais"], year |-> r["ano"], unit |-> r["unidade"],
     gdp_usd |-> NumberOf(r["pib_dolar"])]

CleanPopulationRow(r) ==
    [country |-> r["pais"], year |-> r["ano"], unit |-> r["unidade"],
     population |-> NumberOf(r["populacao"])]

ExactlyRetained(raw, value, clean, CleanRow(_)) ==
    LET retained == {i \in DOMAIN raw.rows :
                        /\ IsNumeric(raw.rows[i][value])
                        /\ ~IsNull(raw.rows[i]["pais"])
                        /\ ~IsNull(raw.rows[i]["ano"])}
    IN  /\ Len(clean.rows) = Cardinality(retained)
        /\ \A i \in retained :
              Count(clean.rows, CleanRow(raw.rows[i]))
                  = Cardinality({j \in retained : raw.rows[j] = raw.rows[i]})
        /\ \A i \in DOMAIN clean.rows :
              \E j \in retained : clean.rows[i] = CleanRow(raw.rows[j])

\* C7: after cleaning, df_gdp holds exactly the loaded GDP rows whose pib_dolar
\* is numeric and whose pais and ano are present, and df_population exactly the
\* loaded population rows whose populacao is numeric and whose pais and ano
\* are present, under the names country, year, unit, gdp_usd and population
\* and with their values unchanged.
C7_NormalizeExact ==
    Cleaned =>
        /\ Columns(df_gdp) = {"country", "year", "unit", "gdp_usd"}
        /\ Columns(df_population) = {"country", "year", "unit", "population"}
        /\ ExactlyRetained(cache["brics_pib"].df, "pib_dolar", df_gdp, CleanGdpRow)
        /\ ExactlyRetained(cache["brics_populacao"].df, "populacao", df_population,
                           CleanPopulationRow)

\* A GDP table with a non-numeric pib_dolar, dropped, beside a numeric one,
\* kept, and a population table that lost a row with a missing cell.
C7_Witness ==
    /\ Cleaned
    /\ \E i \in DOMAIN cache["brics_pib"].df.rows :
          cache["brics_pib"].df.rows[i]["pib_dolar"] = Str("abc")
    /\ Len(df_gdp.rows) = 1
    /\ df_gdp.rows[1]["gdp_usd"] = Num(100)
    /\ Len(df_population.rows) = 1
    /\ Len(cache["brics_populacao"].df.rows) = 2

GdpYearUnusable ==
    /\ cache["brics_pib"].cached
    /\ ~IsEmpty(cache["brics_pib"].df)
    /\ \/ "ano" \notin Columns(cache["brics_pib"].df)
       \/ cache["brics_pib"].df.dtypes["ano"] = "object"

PopulationUsable ==
    /\ cache["brics_populacao"].cached
    /\ ~IsEmpty(cache["brics_populacao"].df)
    /\ PopulationColumns \subseteq Columns(cache["brics_populacao"].df)
    /\ cache["brics_populacao"].df.dtypes["ano"] = "int64"
    /\ cache["brics_populacao"].df.dtypes["populacao"] = "int64"

\* C8: with a GDP table whose year column is missing or not numeric (and a
\* well-formed population table), no exception ends the run, and the run ends
\* with the error message, the default year range and empty results.
C8_YearProblemIsReported ==
    (GdpYearUnusable /\ PopulationUsable) =>
        /\ pc # "crashed"
        /\ pc = "done" =>
              /\ "error: year" \in messages
              /\ year_range = <<DefaultMinYear, DefaultMaxYear>>
              /\ df_gdp_filtered.rows = <<>>
              /\ df_combined.rows = <<>>

\* C9: no connection opened by load_data is open once the call has returned.
C9_ConnectionsClosed == \A t \in TableNames : conn[t] # "open"

LoadFailed(t) == cache[t].cached /\ cache[t].messages # {}

\* C10: a load_data call that failed to connect or to query has cached an empty
\* dataset after a single connection attempt; no exception ends the run, the
\* else branch of the script is never entered, and the run ends with the load
\* error and the warning shown and no filtered, combined or latest output.
C10_LoadFailureDegrades ==
    \A t \in TableNames :
        LoadFailed(t) =>
            /\ cache[t].df = EmptyDataFrame
            /\ connect_attempts[t] = 1
            /\ exception = "none"
            /\ pc \in {"load_gdp", "load_population", "check", "done"}
            /\ pc = "done" =>
                  /\ LoadError(t) \in messages
                  /\ "warning: load" \in messages
                  /\ locals \subseteq {"df_gdp", "df_population"}
                  /\ df_gdp_filtered = EmptyDataFrame
                  /\ df_population_filtered = EmptyDataFrame
                  /\ df_combined = EmptyDataFrame
                  /\ latest_table = EmptyDataFrame

\* A run that ended after the GDP query failed and the population query
\* returned rows.
C10_Witness ==
    /\ pc = "done"
    /\ LoadFailed("brics_pib")
    /\ ~IsEmpty(cache["brics_populacao"].df)
    /\ "warning: load" \in messages

====
